---- MODULE Spec2Model ----
(***************************************************************************)
(* A model of the Big Blue Bus GTFS-realtime monitor: the trip-update      *)
(* client (src/src/api.rs), its record types and helpers                   *)
(* (src/src/models.rs), the poll loop (src/src/main.rs) and the shape of   *)
(* the vehicle-position feed (src/debug_feed.rs).                          *)
(***************************************************************************)
EXTENDS Integers, Sequences, FiniteSets, TLC

VARIABLES
    pc,              \* where the caller of the client is: idle/send/body/returned/tick
    route_ids,       \* the route_ids argument of the running poll_routes call
    data,            \* Option: the bytes fetch_trip_updates returned in this call
    all_updates,     \* Option: the Result parse_feed returned in this call
    result,          \* Option: the Result poll_routes returned
    poll_count,      \* main's poll_count
    failures,        \* how many times main's Err arm ran
    memo,            \* Option: an earlier parse_feed call, [data, out]
    delay_seconds,   \* format_delay's argument
    overflow_checks, \* whether the build traps integer overflow
    label,           \* Option: what format_delay returned
    snapshot,        \* Option: the feed handed to the vehicle-position normalizer
    observations     \* Option: the observations it returned

vars == <<pc, route_ids, data, all_updates, result, poll_count, failures, memo,
          delay_seconds, overflow_checks, label, snapshot, observations>>

clientVars == <<pc, route_ids, data, all_updates, result>>
mainVars == <<poll_count, failures>>
delayVars == <<delay_seconds, overflow_checks, label>>
vehicleVars == <<snapshot, observations>>

----------------------------------------------------------------------------
(* Bounds of the model. *)

MaxEntities == 3
MaxStops == 2
MaxPolls == 3
MaxDelay == 130

----------------------------------------------------------------------------
(* Option<T> and Result<T>. *)

None == <<>>
Some(x) == <<x>>
IsSome(o) == o # <<>>
Unwrap(o) == o[1]
UnwrapOr(o, d) == IF IsSome(o) THEN o[1] ELSE d

Ok(v) == [ok |-> TRUE, val |-> v]
Err(e) == [ok |-> FALSE, err |-> e]

----------------------------------------------------------------------------
(* Fixed-width integers.  An unsigned value is its big-endian sequence of  *)
(* 16-bit limbs (two limbs: u32, four limbs: u64); a signed value is a     *)
(* sign and a magnitude, the magnitude again in limbs.                     *)

RECURSIVE AddOneAt(_, _)
AddOneAt(u, i) ==
    IF i = 0 THEN u
    ELSE IF u[i] < 65535 THEN [u EXCEPT ![i] = u[i] + 1]
    ELSE AddOneAt([u EXCEPT ![i] = 0], i - 1)

\* 2^w - u, for u of w bits
TwosComplement(u) == AddOneAt([i \in DOMAIN u |-> 65535 - u[i]], Len(u))

ZeroLimbs(n) == [i \in 1..n |-> 0]

Signed(neg, mag) == [neg |-> neg, mag |-> mag]

\* `x as i64` for x: u64, `x as i32` for x: u32: the bits are kept, and a set
\* top bit makes the value negative.
AsSigned(u) ==
    IF u[1] >= 32768 THEN Signed(TRUE, TwosComplement(u)) ELSE Signed(FALSE, u)

\* The signed value that is numerically the unsigned u.
NumericallyEqual(s, u) == s = Signed(FALSE, u)
IsNegative(s) == s.neg

U64(a, b, c, d) == <<a, b, c, d>>
U32(a, b) == <<a, b>>

I32_MAX == 2147483647
I32_MIN == -I32_MAX - 1

----------------------------------------------------------------------------
(* The decoded feed: transit_realtime::FeedMessage and what it holds.      *)

TsZero == U64(0, 0, 0, 0)
TsNow == U64(0, 0, 25939, 61696)         \* 1700000000
TsLater == U64(0, 0, 25939, 61726)       \* 1700000030
TsI64Max == U64(32767, 65535, 65535, 65535)
TsPow63 == U64(32768, 0, 0, 0)
TsU64Max == U64(65535, 65535, 65535, 65535)

HeaderTimestamps == {None, Some(TsNow), Some(TsU64Max)}
PayloadTimestamps ==
    {None, Some(TsZero), Some(TsLater), Some(TsI64Max), Some(TsPow63), Some(TsU64Max)}

DirectionIds == {None, Some(U32(0, 0)), Some(U32(0, 1)), Some(U32(65535, 65535))}

TripDescriptors ==
    [route_id : {None, Some("1"), Some("R1")},
     trip_id : {None, Some("T1")},
     direction_id : DirectionIds]

VehicleDescriptors ==
    {None, Some([id |-> None]), Some([id |-> Some("4051")]),
     Some([id |-> Some("unknown")])}

EvLate == [time |-> Some(1700000100), delay |-> Some(125), uncertainty |-> None]
EvEarly == [time |-> None, delay |-> Some(-5), uncertainty |-> Some(30)]
EvBare == [time |-> None, delay |-> None, uncertainty |-> None]

StopTimeUpdates ==
    {[stop_sequence |-> Some(1), stop_id |-> Some("S1"),
      arrival |-> Some(EvLate), departure |-> None],
     [stop_sequence |-> None, stop_id |-> None,
      arrival |-> None, departure |-> Some(EvEarly)],
     [stop_sequence |-> Some(1), stop_id |-> Some("S2"),
      arrival |-> Some(EvBare), departure |-> Some(EvLate)],
     [stop_sequence |-> Some(0), stop_id |-> Some("S1"),
      arrival |-> Some(EvEarly), departure |-> Some(EvBare)]}

StopLists == UNION {[1..n -> StopTimeUpdates] : n \in 0..MaxStops}

Trip(route, trip, dir) == [route_id |-> route, trip_id |-> trip, direction_id |-> dir]

TripUpdateMsg(trip, veh, stops, ts) ==
    [trip |-> trip, vehicle |-> veh, stop_time_update |-> stops, timestamp |-> ts]

Position == [latitude |-> "34.0195", longitude |-> "-118.4912",
             bearing |-> Some("90.0"), speed |-> None]

VehiclePositionMsg(trip, veh, pos, ts) ==
    [trip |-> trip, vehicle |-> veh, position |-> pos, timestamp |-> ts,
     current_stop_sequence |-> None]

Entity(id, tu, vp) == [id |-> id, trip_update |-> tu, vehicle |-> vp]

TwoStops ==
    << [stop_sequence |-> Some(1), stop_id |-> Some("S1"),
        arrival |-> Some(EvLate), departure |-> None],
       [stop_sequence |-> Some(1), stop_id |-> Some("S2"),
        arrival |-> Some(EvBare), departure |-> Some(EvLate)] >>

BaseTrip == Trip(Some("1"), Some("T1"), Some(U32(0, 0)))
BaseTripUpdate ==
    TripUpdateMsg(BaseTrip, Some([id |-> Some("4051")]), TwoStops, Some(TsLater))
BaseVehicle ==
    VehiclePositionMsg(Some(BaseTrip), Some([id |-> Some("4051")]), Some(Position),
                       Some(TsLater))

ENeither == Entity("e0", None, None)
EVehicleOnly == Entity("e1", None, Some(BaseVehicle))
ERoute1 == Entity("e2", Some(BaseTripUpdate), None)
ERoute2 ==
    Entity("e3", Some(TripUpdateMsg(Trip(Some("2"), Some("T2"), None), None, <<>>, None)),
           None)
ERouteAbsent ==
    Entity("e4", Some(TripUpdateMsg(Trip(None, None, None), None, <<>>, None)), None)
ERoute10 ==
    Entity("e5", Some(TripUpdateMsg(Trip(Some("10"), Some("T3"), Some(U32(0, 1))),
                                    Some([id |-> None]), <<>>, Some(TsPow63))), None)

\* Entities that are combined freely into feeds of up to MaxEntities.
CoreEntities == {ENeither, EVehicleOnly, ERoute1, ERoute2, ERouteAbsent, ERoute10}

\* Entities that vary one part of a trip update at a time.
VariedEntities ==
    {Entity("v", Some([BaseTripUpdate EXCEPT !.trip = t]), None) : t \in TripDescriptors}
    \cup {Entity("v", Some([BaseTripUpdate EXCEPT !.vehicle = v]), None) :
            v \in VehicleDescriptors}
    \cup {Entity("v", Some([BaseTripUpdate EXCEPT !.stop_time_update = s]), None) :
            s \in StopLists}
    \cup {Entity("v", Some([BaseTripUpdate EXCEPT !.timestamp = t]), None) :
            t \in PayloadTimestamps}
    \cup {Entity("v", Some(BaseTripUpdate), Some(BaseVehicle))}

FeedMessage(ts, entities) == [header |-> [timestamp |-> ts], entity |-> entities]

Feeds ==
    {FeedMessage(ts, es) :
        ts \in HeaderTimestamps,
        es \in UNION {[1..n -> CoreEntities] : n \in 0..MaxEntities}}
    \cup {FeedMessage(ts, <<e>>) : ts \in HeaderTimestamps, e \in VariedEntities}

\* The bytes of a response body: a protobuf encoding of a feed, or bytes
\* that are no FeedMessage.
Encoded(feed) == [wire |-> "protobuf", msg |-> feed]
Malformed == [wire |-> "malformed"]
Bodies == {Encoded(f) : f \in Feeds} \cup {Malformed}

FeedMessage_decode(bytes) ==
    IF bytes.wire = "protobuf" THEN Ok(bytes.msg)
    ELSE Err("Failed to decode protobuf message")

----------------------------------------------------------------------------
(* GtfsClient::parse_feed.                                                 *)

StopTimeEvent(e) == [time |-> e.time, delay |-> e.delay, uncertainty |-> e.uncertainty]

MapEvent(o) == IF IsSome(o) THEN Some(StopTimeEvent(Unwrap(o))) ELSE None

StopTimeUpdate(stu) ==
    [stop_sequence |-> UnwrapOr(stu.stop_sequence, 0),
     stop_id |-> stu.stop_id,
     arrival |-> MapEvent(stu.arrival),
     departure |-> MapEvent(stu.departure)]

\* a loop that keeps one update per stop_sequence
RECURSIVE StopLoopDistinct(_, _, _)
StopLoopDistinct(stus, i, acc) ==
    IF i > Len(stus) THEN acc
    ELSE IF \E j \in 1..Len(acc) :
                acc[j].stop_sequence = UnwrapOr(stus[i].stop_sequence, 0)
    THEN StopLoopDistinct(stus, i + 1, acc)
    ELSE StopLoopDistinct(stus, i + 1, Append(acc, StopTimeUpdate(stus[i])))

RECURSIVE StopLoop(_, _, _)
StopLoop(stus, i, acc) ==
    IF i > Len(stus) THEN acc
    ELSE StopLoop(stus, i + 1, Append(acc, StopTimeUpdate(stus[i])))

\* a vehicle id that falls back like the route and trip ids
VehicleIdOrUnknown(veh) ==
    Some(UnwrapOr(IF IsSome(veh) THEN Unwrap(veh).id ELSE None, "unknown"))

VehicleId(veh) == IF IsSome(veh) THEN Unwrap(veh).id ELSE None

Timestamp(trip_update, feed_timestamp) ==
    IF IsSome(trip_update.timestamp) THEN AsSigned(Unwrap(trip_update.timestamp))
    ELSE feed_timestamp

TripUpdate(trip_update, feed_timestamp) ==
    [route_id |-> UnwrapOr(trip_update.trip.route_id, "unknown"),
     trip_id |-> UnwrapOr(trip_update.trip.trip_id, "unknown"),
     direction_id |->
        IF IsSome(trip_update.trip.direction_id)
        THEN Some(AsSigned(Unwrap(trip_update.trip.direction_id)))
        ELSE None,
     vehicle_id |-> VehicleId(trip_update.vehicle),
     stop_time_updates |-> StopLoop(trip_update.stop_time_update, 1, <<>>),
     timestamp |-> Timestamp(trip_update, feed_timestamp)]

\* a loop that puts each new record in front
RECURSIVE EntityLoopNewestFirst(_, _, _, _)
EntityLoopNewestFirst(entities, i, feed_timestamp, trip_updates) ==
    IF i > Len(entities) THEN trip_updates
    ELSE IF IsSome(entities[i].trip_update)
    THEN EntityLoopNewestFirst(entities, i + 1, feed_timestamp,
            <<TripUpdate(Unwrap(entities[i].trip_update), feed_timestamp)>>
                \o trip_updates)
    ELSE EntityLoopNewestFirst(entities, i + 1, feed_timestamp, trip_updates)

RECURSIVE EntityLoop(_, _, _, _)
EntityLoop(entities, i, feed_timestamp, trip_updates) ==
    IF i > Len(entities) THEN trip_updates
    ELSE IF IsSome(entities[i].trip_update)
    THEN EntityLoop(entities, i + 1, feed_timestamp,
                    Append(trip_updates,
                           TripUpdate(Unwrap(entities[i].trip_update), feed_timestamp)))
    ELSE EntityLoop(entities, i + 1, feed_timestamp, trip_updates)

FeedTimestamp(feed) == AsSigned(UnwrapOr(feed.header.timestamp, ZeroLimbs(4)))

\* a parse_feed whose output vector outlives the call
parse_feed_keeps_vector(bytes) ==
    LET decoded == FeedMessage_decode(bytes)
        kept == IF IsSome(all_updates) /\ Unwrap(all_updates).ok
                THEN Unwrap(all_updates).val ELSE <<>>
    IN  IF ~decoded.ok THEN decoded
        ELSE Ok(EntityLoop(decoded.val.entity, 1, FeedTimestamp(decoded.val), kept))

parse_feed(bytes) ==
    LET decoded == FeedMessage_decode(bytes) IN
    IF ~decoded.ok THEN decoded
    ELSE Ok(EntityLoop(decoded.val.entity, 1, FeedTimestamp(decoded.val), <<>>))

----------------------------------------------------------------------------
(* TripUpdate::is_route and the rest of GtfsClient.                        *)

is_route(update, route_id) == update.route_id = route_id

MatchesAny(update, ids) == \E i \in DOMAIN ids : is_route(update, ids[i])

\* a filter that collects the matches of each target in turn
RECURSIVE PerTarget(_, _, _)
PerTarget(updates, ids, j) ==
    IF j > Len(ids) THEN <<>>
    ELSE SelectSeq(updates, LAMBDA u : is_route(u, ids[j])) \o PerTarget(updates, ids, j + 1)
FilterPerTarget(updates, ids) == PerTarget(updates, ids, 1)

\* .into_iter().filter(..).collect()
Filter(updates, ids) == SelectSeq(updates, LAMBDA u : MatchesAny(u, ids))

\* a poll that parses an empty buffer when the fetch failed
poll_trip_updates_or_default(fetched) ==
    parse_feed(IF fetched.ok THEN fetched.val ELSE Encoded(FeedMessage(None, <<>>)))

\* `fetched` is what fetch_trip_updates returned
poll_trip_updates(fetched) ==
    IF ~fetched.ok THEN fetched ELSE parse_feed(fetched.val)

poll_routes(fetched, ids) ==
    LET all == poll_trip_updates(fetched) IN
    IF ~all.ok THEN all ELSE Ok(Filter(all.val, ids))

\* The route_ids a caller passes; <<"1", "2">> is what main passes.
MainRoutes == <<"1", "2">>
TargetLists == {<<>>, <<"1">>, MainRoutes, <<"2", "1", "1">>, <<"r1", "100">>}

StatusCodes == {200, 204, 304, 404, 500}
is_success(status) == status >= 200 /\ status <= 299

\* fetch_trip_updates, one action per way its awaits can complete.
Returns(fetched) ==
    /\ data' = IF fetched.ok THEN Some(fetched.val) ELSE None
    /\ all_updates' = IF fetched.ok THEN Some(parse_feed(fetched.val)) ELSE None
    /\ result' = Some(poll_routes(fetched, route_ids))
    /\ pc' = "returned"
    /\ UNCHANGED <<route_ids, mainVars, memo, delayVars, vehicleVars>>

SendFails ==
    /\ pc = "send"
    /\ Returns(Err("Failed to fetch trip updates"))

SendResponds ==
    /\ pc = "send"
    /\ \E status \in StatusCodes :
        IF is_success(status)
        THEN /\ pc' = "body"
             /\ UNCHANGED <<route_ids, data, all_updates, result, mainVars, memo,
                            delayVars, vehicleVars>>
        ELSE Returns(Err("API returned error status"))

BodyFails ==
    /\ pc = "body"
    /\ Returns(Err("Failed to read response body"))

BodyArrives(bodies) ==
    /\ pc = "body"
    /\ \E bytes \in bodies : Returns(Ok(bytes))

\* A caller of the client's public poll_routes.
CallPollRoutes ==
    /\ pc \in {"idle", "returned"}
    /\ \E ids \in TargetLists : route_ids' = ids
    /\ pc' = "send"
    /\ data' = None /\ all_updates' = None /\ result' = None
    /\ UNCHANGED <<mainVars, memo, delayVars, vehicleVars>>

Idle ==
    /\ route_ids = <<>> /\ data = None /\ all_updates = None /\ result = None
    /\ poll_count = 0 /\ failures = 0
    /\ memo = None
    /\ delay_seconds = 0 /\ overflow_checks = FALSE /\ label = None
    /\ snapshot = None /\ observations = None

Init == pc = "idle" /\ Idle

Next == CallPollRoutes \/ SendFails \/ SendResponds \/ BodyFails \/ BodyArrives(Bodies)

Spec == Init /\ [][Next]_vars

----------------------------------------------------------------------------
(* What the claims speak of: the feed a call decoded and what it returned. *)

Decoded == IsSome(data) /\ Unwrap(data).wire = "protobuf"
Parsed == Decoded /\ IsSome(all_updates) /\ Unwrap(all_updates).ok
InFeed == Unwrap(data).msg
Out == Unwrap(all_updates).val
\* the trip-update payloads of the feed, in entity order
Payloads ==
    LET carriers == SelectSeq(InFeed.entity, LAMBDA e : e.trip_update # <<>>)
    IN  [k \in 1..Len(carriers) |-> carriers[k].trip_update[1]]
Aligned == Parsed /\ Len(Out) = Len(Payloads)

\* C1: whenever the bytes decode, parse_feed returns Ok with exactly one
\* TripUpdate per entity that has a trip-update payload, in entity order
\* (told apart by their route and trip ids), and nothing for the other
\* entities: a feed without any payload gives the empty sequence.
C1_OnePerPayloadInOrder ==
    Decoded =>
        /\ Parsed
        /\ Len(Out) = Len(Payloads)
        /\ \A k \in 1..Len(Payloads) :
            /\ Out[k].trip_id =
                 (IF Payloads[k].trip.trip_id = <<>> THEN "unknown"
                  ELSE Payloads[k].trip.trip_id[1])
            /\ Out[k].route_id =
                 (IF Payloads[k].trip.route_id = <<>> THEN "unknown"
                  ELSE Payloads[k].trip.route_id[1])
        /\ ((\A i \in 1..Len(InFeed.entity) : InFeed.entity[i].trip_update = <<>>)
                => Out = <<>>)

\* a feed of three entities, the middle one without a payload, the outer two
\* with different trips: two records, in that order
C1_Witness ==
    /\ Parsed
    /\ Len(InFeed.entity) = 3
    /\ InFeed.entity[2].trip_update = <<>>
    /\ Len(Out) = 2
    /\ Out[1].trip_id = "T2" /\ Out[2].trip_id = "T1"

\* C2: each record's timestamp is the payload's own timestamp when present,
\* else the header's when present, else 0 (as numbers).
C2_TimestampFallback ==
    Aligned =>
        \A k \in 1..Len(Payloads) :
            IF Payloads[k].timestamp # <<>>
            THEN NumericallyEqual(Out[k].timestamp, Payloads[k].timestamp[1])
            ELSE IF InFeed.header.timestamp # <<>>
            THEN NumericallyEqual(Out[k].timestamp, InFeed.header.timestamp[1])
            ELSE NumericallyEqual(Out[k].timestamp, <<0, 0, 0, 0>>)

\* C3: route_id and trip_id are the trip descriptor's values or "unknown";
\* vehicle_id is the vehicle descriptor's id when descriptor and id are both
\* there and None otherwise.
C3_IdFallbacks ==
    Aligned =>
        \A k \in 1..Len(Payloads) :
            LET p == Payloads[k] IN
            /\ Out[k].route_id =
                 (IF p.trip.route_id = <<>> THEN "unknown" ELSE p.trip.route_id[1])
            /\ Out[k].trip_id =
                 (IF p.trip.trip_id = <<>> THEN "unknown" ELSE p.trip.trip_id[1])
            /\ Out[k].vehicle_id =
                 (IF p.vehicle # <<>> /\ p.vehicle[1].id # <<>>
                  THEN <<p.vehicle[1].id[1]>> ELSE <<>>)

\* a payload with no ids at all and a vehicle descriptor without id
C3_Witness ==
    /\ Aligned
    /\ \E k \in 1..Len(Payloads) :
        /\ Payloads[k].trip.route_id = <<>> /\ Payloads[k].trip.trip_id = <<>>
        /\ Out[k].route_id = "unknown" /\ Out[k].trip_id = "unknown"
    /\ \E k \in 1..Len(Payloads) :
        /\ Payloads[k].vehicle = << [id |-> <<>>] >>
        /\ Out[k].vehicle_id = <<>>

\* the positions of all_updates whose route_id is one of the targets
Matching == {i \in 1..Len(Out) : \E j \in 1..Len(route_ids) : Out[i].route_id = route_ids[j]}
NthMatching(k) == CHOOSE i \in Matching : Cardinality({j \in Matching : j < i}) = k - 1

\* C4: poll_routes returns exactly the records of the parsed sequence whose
\* route_id is string-equal to one of the targets, each once, in their order.
C4_RouteFilter ==
    (Parsed /\ pc = "returned") =>
        /\ IsSome(result) /\ Unwrap(result).ok
        /\ LET filtered == Unwrap(result).val IN
            /\ Len(filtered) = Cardinality(Matching)
            /\ \A k \in 1..Len(filtered) : filtered[k] = Out[NthMatching(k)]

\* routes 1, 10, 1 filtered by a target list that names "1" twice: the two
\* "1" records, once each, and not the "10" record
C4_Witness ==
    /\ Parsed /\ pc = "returned"
    /\ route_ids = <<"2", "1", "1">>
    /\ Len(Out) = 3
    /\ Out[1].route_id = "1" /\ Out[2].route_id = "10" /\ Out[3].route_id = "1"
    /\ Len(Unwrap(result).val) = 2

\* C6: stop_time_updates has the length and order of the payload's
\* stop-time-update list; stop_sequence is the source's or 0, stop_id is
\* passed through, arrival and departure are present exactly when the
\* source's are, with time, delay and uncertainty copied.
C6_StopTimeUpdates ==
    Aligned =>
        \A k \in 1..Len(Payloads) :
            LET src == Payloads[k].stop_time_update
                out == Out[k].stop_time_updates
            IN  /\ Len(out) = Len(src)
                /\ \A i \in 1..Len(src) :
                    /\ out[i].stop_sequence =
                         (IF src[i].stop_sequence = <<>> THEN 0
                          ELSE src[i].stop_sequence[1])
                    /\ out[i].stop_id = src[i].stop_id
                    /\ out[i].arrival = src[i].arrival
                    /\ out[i].departure = src[i].departure

\* two stops with the same stop_sequence, kept as two
C6_Witness ==
    /\ Aligned
    /\ \E k \in 1..Len(Payloads) :
        /\ Len(Payloads[k].stop_time_update) = 2
        /\ Len(Out[k].stop_time_updates) = 2
        /\ Out[k].stop_time_updates[1].stop_sequence =
             Out[k].stop_time_updates[2].stop_sequence
        /\ Out[k].stop_time_updates[1] # Out[k].stop_time_updates[2]

\* C10: a record's timestamp is never negative and is, as a number, the
\* unsigned header or payload value it was taken from.
C10_TimestampInRange ==
    Aligned =>
        \A k \in 1..Len(Payloads) :
            /\ ~IsNegative(Out[k].timestamp)
            /\ Payloads[k].timestamp # <<>>
                 => Out[k].timestamp.mag = Payloads[k].timestamp[1]
            /\ (Payloads[k].timestamp = <<>> /\ InFeed.header.timestamp # <<>>)
                 => Out[k].timestamp.mag = InFeed.header.timestamp[1]

FetchErrors ==
    {"Failed to fetch trip updates", "API returned error status",
     "Failed to read response body"}

\* C11: while the fetch is under way nothing is parsed or returned; when the
\* fetch failed, parse_feed was not called and poll_routes returned the
\* fetch's error, without records; when the bytes did not decode,
\* parse_feed returned the decode error, without records, and poll_routes
\* returned that error, unfiltered.
C11_ErrorsYieldNoRecords ==
    /\ pc \in {"send", "body"} =>
            (data = <<>> /\ all_updates = <<>> /\ result = <<>>)
    /\ pc = "returned" =>
        /\ result # <<>>
        /\ data = <<>> =>
            /\ all_updates = <<>>
            /\ \E msg \in FetchErrors : result[1] = [ok |-> FALSE, err |-> msg]
        /\ (data # <<>> /\ data[1].wire # "protobuf") =>
            /\ all_updates = << [ok |-> FALSE, err |-> "Failed to decode protobuf message"] >>
            /\ result = all_updates

\* a poll for routes 1 and 2 whose body arrived and did not decode
C11_Witness ==
    /\ pc = "returned"
    /\ route_ids = <<"1", "2">>
    /\ data = << [wire |-> "malformed"] >>
    /\ ~result[1].ok
    /\ result[1].err = "Failed to decode protobuf message"

----------------------------------------------------------------------------
(* Direct calls of the public parse_feed, with one earlier call remembered. *)

ParseEntities == {ENeither, ERoute2, ERoute10}
ParseBodies ==
    {Encoded(FeedMessage(ts, es)) :
        ts \in {None, Some(TsNow)},
        es \in {<<>>} \cup {<<a>> : a \in ParseEntities}
                \cup {<<a, b>> : a \in ParseEntities, b \in ParseEntities}}
    \cup {Malformed}

\* memo: the remembered call, how many calls followed it (counted to 2) and
\* whether one of them had other bytes
Remember(bytes, out) == Some([data |-> bytes, out |-> out, later |-> 0, other |-> FALSE])
Later(bytes) ==
    IF memo = None THEN memo
    ELSE Some([Unwrap(memo) EXCEPT
                 !.later = IF @ < 2 THEN @ + 1 ELSE @,
                 !.other = @ \/ bytes # Unwrap(memo).data])

CallParseFeed ==
    /\ pc = "idle"
    /\ \E bytes \in ParseBodies, remember \in BOOLEAN :
        /\ data' = Some(bytes)
        /\ all_updates' = Some(parse_feed(bytes))
        /\ memo' = IF remember THEN Remember(bytes, parse_feed(bytes)) ELSE Later(bytes)
    /\ UNCHANGED <<pc, route_ids, result, mainVars, delayVars, vehicleVars>>

ParseInit == pc = "idle" /\ Idle
ParseNext == CallParseFeed
ParseSpec == ParseInit /\ [][ParseNext]_vars

----------------------------------------------------------------------------
(* TripUpdate::format_delay.                                               *)

\* i32 `/` and `%` by a positive divisor: the quotient is rounded to zero
TruncDiv(a, b) == IF a >= 0 THEN a \div b ELSE (a + (b - 1)) \div b
TruncRem(a, b) == a - b * TruncDiv(a, b)

\* i32::abs: the minimum has no absolute value in 32 bits; a build with
\* overflow checks panics there and a build without returns the minimum
Panic(msg) == [panic |-> TRUE, text |-> msg]
Returned(text) == [panic |-> FALSE, text |-> text]

abs(x, checks) ==
    IF x = I32_MIN
    THEN (IF checks THEN Panic("attempt to negate with overflow") ELSE Returned(I32_MIN))
    ELSE Returned(IF x < 0 THEN -x ELSE x)

format_delay(delay, checks) ==
    LET abs_delay == abs(delay, checks) IN
    IF abs_delay.panic THEN abs_delay
    ELSE LET minutes == TruncDiv(abs_delay.text, 60)
             seconds == TruncRem(abs_delay.text, 60)
         IN  IF delay > 0
             THEN Returned(ToString(minutes) \o "m " \o ToString(seconds) \o "s late")
             ELSE IF delay < 0
             THEN Returned(ToString(minutes) \o "m " \o ToString(seconds) \o "s early")
             ELSE Returned("on time")

Delays == (-MaxDelay..MaxDelay) \cup {I32_MIN, I32_MIN + 1, -I32_MAX + 60, I32_MAX}

FormatDelay ==
    /\ pc = "idle"
    /\ label = None
    /\ label' = Some(format_delay(delay_seconds, overflow_checks))
    /\ UNCHANGED <<clientVars, mainVars, memo, delay_seconds, overflow_checks, vehicleVars>>

NextDelay ==
    /\ pc = "idle"
    /\ label # None
    /\ \E d \in Delays, checks \in BOOLEAN :
        delay_seconds' = d /\ overflow_checks' = checks
    /\ label' = None
    /\ UNCHANGED <<clientVars, mainVars, memo, vehicleVars>>

DelayInit ==
    /\ pc = "idle"
    /\ route_ids = <<>> /\ data = None /\ all_updates = None /\ result = None
    /\ poll_count = 0 /\ failures = 0 /\ memo = None
    /\ delay_seconds \in Delays /\ overflow_checks \in BOOLEAN /\ label = None
    /\ snapshot = None /\ observations = None
DelayNext == FormatDelay \/ NextDelay
DelaySpec == DelayInit /\ [][DelayNext]_vars

\* |d| / 60 and |d| % 60 as numbers, for d < 0, through e = |d| - 1
MinutesOfNegative(d) ==
    LET e == -(d + 1) IN IF e % 60 = 59 THEN (e \div 60) + 1 ELSE e \div 60
SecondsOfNegative(d) ==
    LET e == -(d + 1) IN IF e % 60 = 59 THEN 0 ELSE (e % 60) + 1

\* C5: format_delay(d) is "on time" for d = 0, "<m>m <s>s late" for d > 0 and
\* "<m>m <s>s early" for d < 0, with m = |d| / 60 and s = |d| % 60, for
\* every 32-bit d, the minimum included.
C5_FormatDelay ==
    IsSome(label) =>
        /\ ~Unwrap(label).panic
        /\ Unwrap(label).text =
            (IF delay_seconds = 0 THEN "on time"
             ELSE IF delay_seconds > 0
             THEN ToString(delay_seconds \div 60) \o "m "
                    \o ToString(delay_seconds % 60) \o "s late"
             ELSE ToString(MinutesOfNegative(delay_seconds)) \o "m "
                    \o ToString(SecondsOfNegative(delay_seconds)) \o "s early")

\* the same, for every d but the minimum
C5_FormatDelayAboveMin ==
    (IsSome(label) /\ delay_seconds # I32_MIN) => C5_FormatDelay

----------------------------------------------------------------------------
(* main: the poll loop.                                                    *)

\* Display for StopTimeUpdate formats the arrival's and the departure's
\* delay when there is one; whether that panics
EventPanics(ev, checks) ==
    /\ IsSome(ev)
    /\ IsSome(Unwrap(ev).delay)
    /\ format_delay(Unwrap(Unwrap(ev).delay), checks).panic

StopDisplayPanics(stop, checks) ==
    EventPanics(stop.arrival, checks) \/ EventPanics(stop.departure, checks)

\* the Ok arm prints, for the trips of route 1 and of route 2, the first
\* three stops
DisplayPanics(trip_updates, checks) ==
    \E k \in 1..Len(trip_updates) :
        /\ is_route(trip_updates[k], "1") \/ is_route(trip_updates[k], "2")
        /\ \E i \in 1..Len(trip_updates[k].stop_time_updates) :
            /\ i <= 3
            /\ StopDisplayPanics(trip_updates[k].stop_time_updates[i], checks)

EvMinDelay == [time |-> None, delay |-> Some(I32_MIN), uncertainty |-> None]
ERouteMinDelay ==
    Entity("e6",
           Some(TripUpdateMsg(Trip(Some("2"), Some("T4"), None), None,
                              << [stop_sequence |-> Some(7), stop_id |-> Some("S7"),
                                  arrival |-> Some(EvMinDelay), departure |-> None] >>,
                              None)),
           None)

MainBodies ==
    {Malformed,
     Encoded(FeedMessage(Some(TsNow), <<>>)),
     Encoded(FeedMessage(Some(TsNow), <<ERoute1, ERoute10, ERoute2>>)),
     Encoded(FeedMessage(None, <<ERouteMinDelay>>))}

\* interval.tick().await completes; poll_count += 1; poll_routes(&["1", "2"])
Tick ==
    /\ pc = "tick"
    /\ poll_count < MaxPolls
    /\ poll_count' = poll_count + 1
    /\ route_ids' = MainRoutes
    /\ data' = None /\ all_updates' = None /\ result' = None
    /\ pc' = "send"
    /\ UNCHANGED <<failures, memo, delayVars, vehicleVars>>

\* the Ok arm of the match
MainOk ==
    /\ pc = "returned"
    /\ Unwrap(result).ok
    /\ pc' = IF DisplayPanics(Unwrap(result).val, overflow_checks)
             THEN "panicked" ELSE "tick"
    /\ UNCHANGED <<route_ids, data, all_updates, result, mainVars, memo, delayVars,
                   vehicleVars>>

\* an Err arm that passes the error on, as `?` would
MainErrPropagates ==
    /\ pc = "returned"
    /\ ~Unwrap(result).ok
    /\ pc' = "exited"
    /\ failures' = failures + 1
    /\ UNCHANGED <<route_ids, data, all_updates, result, poll_count, memo, delayVars,
                   vehicleVars>>

\* the Err arm of the match
MainErr ==
    /\ pc = "returned"
    /\ ~Unwrap(result).ok
    /\ pc' = "tick"
    /\ failures' = failures + 1
    /\ UNCHANGED <<route_ids, data, all_updates, result, poll_count, memo, delayVars,
                   vehicleVars>>

MainInit ==
    /\ pc = "tick"
    /\ route_ids = <<>> /\ data = None /\ all_updates = None /\ result = None
    /\ poll_count = 0 /\ failures = 0 /\ memo = None
    /\ delay_seconds = 0 /\ overflow_checks \in BOOLEAN /\ label = None
    /\ snapshot = None /\ observations = None

MainNext ==
    Tick \/ SendFails \/ SendResponds \/ BodyFails \/ BodyArrives(MainBodies)
        \/ MainOk \/ MainErr

\* The timer fires every 30 seconds, the request ends within the client's
\* 10 second timeout, and the arms of the match run to their end.
MainSpec ==
    /\ MainInit /\ [][MainNext]_vars
    /\ WF_vars(Tick)
    /\ WF_vars(SendFails \/ SendResponds)
    /\ WF_vars(BodyFails \/ BodyArrives(MainBodies))
    /\ WF_vars(MainOk) /\ WF_vars(MainErr)

FailedPoll == pc = "returned" /\ ~Unwrap(result).ok

\* C9: a poll that returned an error is followed by the wait for the timer,
\* with poll_count unchanged; a tick starts one poll and adds exactly 1 to
\* poll_count, and nothing else changes poll_count; and after a failed poll
\* the next poll does start (while the model's bound on polls allows one).
C9_FailedPollKeepsLoop ==
    /\ [][FailedPoll => (pc' = "tick" /\ poll_count' = poll_count)]_vars
    /\ [][pc = "tick" =>
            (pc' = "send" /\ poll_count' = poll_count + 1 /\ result' = None)]_vars
    /\ [][poll_count' # poll_count => pc = "tick"]_vars
    /\ \A n \in 1..(MaxPolls - 1) :
        (FailedPoll /\ poll_count = n) ~> (pc = "send" /\ poll_count = n + 1)

\* the third poll is under way after two failed ones
C9_Witness == pc = "send" /\ poll_count = 3 /\ failures = 2

----------------------------------------------------------------------------
(* The vehicle-position normalizer: from a decoded feed to BusObservation  *)
(* records.  src/debug_feed.rs reads the fields it decides on; the         *)
(* normalizer itself is modelled from its description.                     *)

VehicleTrips == {None, Some(BaseTrip), Some(Trip(None, Some("T9"), None))}
VehiclePositions == {None, Some(Position)}

EVehicleNoTrip ==
    Entity("p1", None, Some([BaseVehicle EXCEPT !.trip = None]))
EVehicleNoPosition ==
    Entity("p2", None, Some([BaseVehicle EXCEPT !.position = None]))
EVehicleNoDescriptor ==
    Entity("p3", None,
           Some(VehiclePositionMsg(Some(Trip(Some("2"), Some("T2"), None)), None,
                                   Some(Position), None)))

VehicleCoreEntities ==
    {ENeither, ERoute2, EVehicleOnly, EVehicleNoTrip, EVehicleNoPosition,
     EVehicleNoDescriptor}

VehicleVariedEntities ==
    {Entity("v", None, Some(VehiclePositionMsg(t, v, p, ts))) :
        t \in VehicleTrips, v \in VehicleDescriptors, p \in VehiclePositions,
        ts \in {None, Some(TsLater)}}

VehicleFeeds ==
    {FeedMessage(ts, es) :
        ts \in {None, Some(TsNow)},
        es \in UNION {[1..n -> VehicleCoreEntities] : n \in 0..MaxEntities}}
    \cup {FeedMessage(ts, <<e>>) : ts \in {None, Some(TsNow)}, e \in VehicleVariedEntities}

BusObservation(vehicle, trip, position, feed_timestamp) ==
    [timestamp |->
        IF IsSome(vehicle.timestamp) THEN AsSigned(Unwrap(vehicle.timestamp))
        ELSE feed_timestamp,
     vehicle_id |-> UnwrapOr(VehicleId(vehicle.vehicle), "unknown"),
     route_id |-> UnwrapOr(trip.route_id, "unknown"),
     trip_id |-> trip.trip_id,
     direction_id |-> trip.direction_id,
     latitude |-> position.latitude,
     longitude |-> position.longitude,
     current_stop_sequence |-> vehicle.current_stop_sequence,
     speed |-> position.speed,
     bearing |-> position.bearing]

\* whether an entity yields an observation: steps 1, 2 and 5
Emits(entity) ==
    /\ IsSome(entity.vehicle)
    /\ IsSome(Unwrap(entity.vehicle).trip)
    /\ IsSome(Unwrap(entity.vehicle).position)

\* a loop that takes an entity without trip descriptor too, with defaults
RECURSIVE VehicleLoopDefaultsTrip(_, _, _, _)
VehicleLoopDefaultsTrip(entities, i, feed_timestamp, acc) ==
    IF i > Len(entities) THEN acc
    ELSE IF IsSome(entities[i].vehicle) /\ IsSome(Unwrap(entities[i].vehicle).position)
    THEN LET vehicle == Unwrap(entities[i].vehicle) IN
         VehicleLoopDefaultsTrip(entities, i + 1, feed_timestamp,
            Append(acc, BusObservation(vehicle,
                                       UnwrapOr(vehicle.trip, Trip(None, None, None)),
                                       Unwrap(vehicle.position), feed_timestamp)))
    ELSE VehicleLoopDefaultsTrip(entities, i + 1, feed_timestamp, acc)

RECURSIVE VehicleLoop(_, _, _, _)
VehicleLoop(entities, i, feed_timestamp, acc) ==
    IF i > Len(entities) THEN acc
    ELSE IF Emits(entities[i])
    THEN LET vehicle == Unwrap(entities[i].vehicle) IN
         VehicleLoop(entities, i + 1, feed_timestamp,
                     Append(acc, BusObservation(vehicle, Unwrap(vehicle.trip),
                                                Unwrap(vehicle.position),
                                                feed_timestamp)))
    ELSE VehicleLoop(entities, i + 1, feed_timestamp, acc)

normalize_vehicles(feed) == VehicleLoop(feed.entity, 1, FeedTimestamp(feed), <<>>)

NormalizeVehicles ==
    /\ pc = "idle"
    /\ observations = None
    /\ \E feed \in VehicleFeeds :
        /\ snapshot' = Some(feed)
        /\ observations' = Some(normalize_vehicles(feed))
    /\ UNCHANGED <<clientVars, mainVars, memo, delayVars>>

\* the records of a poll are dropped once they are stored or shown
DropObservations ==
    /\ pc = "idle"
    /\ observations # None
    /\ snapshot' = None /\ observations' = None
    /\ UNCHANGED <<clientVars, mainVars, memo, delayVars>>

VehicleInit == pc = "idle" /\ Idle
VehicleNext == NormalizeVehicles \/ DropObservations
VehicleSpec == VehicleInit /\ [][VehicleNext]_vars

\* the vehicle payloads with a trip descriptor and a position, in entity order
Sighted ==
    LET es == SelectSeq(Unwrap(snapshot).entity,
                        LAMBDA e : /\ e.vehicle # <<>>
                                   /\ e.vehicle[1].trip # <<>>
                                   /\ e.vehicle[1].position # <<>>)
    IN  [k \in 1..Len(es) |-> es[k].vehicle[1]]

\* C7: there is one observation per entity that has a vehicle payload with
\* a trip descriptor and a position, in entity order, and none for any other
\* entity; a payload without vehicle descriptor is among them, with
\* vehicle_id "unknown".
C7_ObservationIffTripAndPosition ==
    IsSome(observations) =>
        LET obs == Unwrap(observations) IN
        /\ Len(obs) = Len(Sighted)
        /\ \A k \in 1..Len(Sighted) :
            /\ obs[k].trip_id = Sighted[k].trip[1].trip_id
            /\ obs[k].latitude = Sighted[k].position[1].latitude
            /\ Sighted[k].vehicle = <<>> => obs[k].vehicle_id = "unknown"

\* three vehicle payloads: one without trip descriptor, one without
\* position, one without vehicle descriptor; only the last is observed
C7_Witness ==
    /\ IsSome(observations)
    /\ LET es == Unwrap(snapshot).entity IN
        /\ Len(es) = 3
        /\ \A i \in 1..3 : es[i].vehicle # <<>>
        /\ es[1].vehicle[1].trip = <<>>
        /\ es[2].vehicle[1].position = <<>>
        /\ es[3].vehicle[1].vehicle = <<>>
    /\ Len(Unwrap(observations)) = 1
    /\ Unwrap(observations)[1].vehicle_id = "unknown"

====
